---- MODULE Spec2Model ----
(***************************************************************************)
(* A model of the non-linear PDE pricer: the Underlying (Underlying.py),   *)
(* the payoffs (Payoff.py), the engine NonLinearPDESolver and its          *)
(* solvePDE (NonLinearPDESolver.py) and computeGreeks (Greeks.py).         *)
(*                                                                         *)
(* Numbers.  Reals are fixed-point integers.  A spot, strike, barrier or   *)
(* premium is a number of price ticks.  A volatility is a number of vol    *)
(* ticks; bid and ask quotes are even, so that a midpoint is a whole       *)
(* number of ticks.  Log-spot is counted in quarter-octaves: Log(s) is     *)
(* floor(4 * log2(s)), and Exp rounds back to a whole tick, so that        *)
(* Exp(Log(s)) need not be s, which is the round-off the engine's barrier  *)
(* snapping exists for.                                                    *)
(*                                                                         *)
(* Python values.  A volatility argument is an object [tag, floats,        *)
(* elems]: tag "float" (elems = <<v>>), "tuple" (elems its elements,       *)
(* floats = every element is a float) or "other" (any other type).  A spot *)
(* carries whether it is a numpy scalar (numpy.float64, as the spots of    *)
(* numpy.linspace are) or a builtin float: Payoff.barrier reads perf.shape,*)
(* which only a numpy value has.  None is the empty sequence.              *)
(***************************************************************************)
EXTENDS Integers, Sequences, FiniteSets, TLC

VARIABLES und, payoff, eng, solve, greeks, last, nl

vars == <<und, payoff, eng, solve, greeks, last, nl>>

\* ------------------------------------------------------------------ bounds
\* Largest spot (in ticks) a bump may produce.
MaxSpot == 32

\* ------------------------------------------------------- Python value model
Float(v) == [tag |-> "float", floats |-> TRUE, elems |-> <<v>>]
Tuple(es) == [tag |-> "tuple", floats |-> TRUE, elems |-> es]
TupleOfInts(es) == [tag |-> "tuple", floats |-> FALSE, elems |-> es]
OtherType == [tag |-> "other", floats |-> FALSE, elems |-> <<>>]

\* ------------------------------------------------------------ Underlying.py
\* validateVol without its test of the order of bid and ask.
validateVol_Unordered(vol) ==
    IF vol.tag = "float" THEN ~(vol.elems[1] <= 0)
    ELSE IF vol.tag = "tuple"
         THEN /\ ~(Len(vol.elems) # 2 \/ ~vol.floats)
              /\ 0 < vol.elems[1]
         ELSE FALSE

\* validateVol(vol): TRUE when it returns, FALSE when it raises.
validateVol(vol) ==
    IF vol.tag = "float" THEN ~(vol.elems[1] <= 0)
    ELSE IF vol.tag = "tuple"
         THEN /\ ~(Len(vol.elems) # 2 \/ ~vol.floats)
              /\ (0 < vol.elems[1] /\ vol.elems[1] <= vol.elems[2])
         ELSE FALSE

\* validateSpot(spot): TRUE when it returns, FALSE when it raises.
validateSpot(spot) == ~(spot <= 0)

\* 0.5 * (vol[0] + vol[1])
MidVol(vol) == Float((vol.elems[1] + vol.elems[2]) \div 2)

\* Underlying.setSpot: the Underlying after the call (unchanged when it raises).
setSpot(u, spot, isNumpy) ==
    IF validateSpot(spot) THEN [u EXCEPT !.spot = spot, !.spot_np = isNumpy] ELSE u

\* setVol that leaves the non-linear flag as it was.
setVol_StaleFlag(u, vol) ==
    IF validateVol(vol) THEN [u EXCEPT !.vol = vol] ELSE u

\* Underlying.setVol
setVol(u, vol) ==
    IF validateVol(vol)
    THEN [u EXCEPT !.vol = vol, !.is_non_linear = (vol.tag = "tuple")]
    ELSE u

\* Underlying.setReferenceVol
setReferenceVol(u, reference_vol) ==
    IF validateVol(reference_vol)
    THEN [u EXCEPT !.reference_vol =
              IF reference_vol.tag = "tuple" THEN MidVol(reference_vol)
              ELSE reference_vol]
    ELSE u

\* Underlying.setReferenceSpot
setReferenceSpot(u, reference_spot) ==
    IF validateSpot(reference_spot)
    THEN [u EXCEPT !.reference_spot = reference_spot]
    ELSE u

\* Underlying.__init__ on arguments every setter accepts.
NewUnderlying(spot, isNumpy, vol) ==
    LET u0 == [spot |-> spot, spot_np |-> isNumpy, reference_spot |-> spot,
               vol |-> vol, is_non_linear |-> FALSE, reference_vol |-> vol]
    IN setReferenceVol(setVol(setReferenceSpot(setSpot(u0, spot, isNumpy), spot), vol), vol)

\* ----------------------------------------------------------------- numpy
Max(a, b) == IF a >= b THEN a ELSE b

RECURSIVE Ilog2(_)
\* floor(log2(n)) for n >= 1
Ilog2(n) == IF n < 2 THEN 0 ELSE 1 + Ilog2(n \div 2)

\* np.log on a spot or barrier, in quarter-octaves: floor(4 * log2(s)).
Log(s) == Ilog2(s * s * s * s)

\* np.exp on a log-spot, rounded up to a whole tick (at least one tick).
Exp(x) ==
    IF x > Log(4 * MaxSpot) THEN 4 * MaxSpot
    ELSE CHOOSE s \in 1..(4 * MaxSpot) :
            /\ Log(s) >= x
            /\ (s = 1 \/ Log(s - 1) < x)

RECURSIVE Isqrt(_, _)
Isqrt(n, r) == IF (r + 1) * (r + 1) > n THEN r ELSE Isqrt(n, r + 1)

\* np.sqrt on an expiry
Sqrt(n) == Isqrt(n, 0)

\* np.sign
Sign(x) == IF x > 0 THEN 1 ELSE IF x < 0 THEN -1 ELSE 0

\* np.linspace(start, stop, num, endpoint=True): the num nodes, the last one
\* being stop itself.
Linspace(start, stop, num) ==
    [j \in 1..num |->
        IF j = num THEN stop
        ELSE start + ((j - 1) * (stop - start)) \div (num - 1)]

\* ---------------------------------------------------------------- Payoff.py
\* barrier(spot, barrier, is_down, is_out) at one element of spot.
barrier(spot, b, is_down, is_out) ==
    LET perf == (spot - b) * (IF is_down THEN -1 ELSE 1)
        ind == IF perf >= 0 THEN 1 ELSE 0
    IN IF is_out THEN 1 - ind ELSE ind

\* The payoffs whose getPayoff goes through barrier().
UsesBarrier(p) == p.variant # "AmericanCall"

\* <variant>.getPayoff at one element of S.
getPayoffAt(p, S) ==
    IF p.variant = "AmericanCall" THEN Max(S - p.strike, 0)
    ELSE IF p.variant = "UpAndOutCallSpread"
    THEN (Max(S - p.strike, 0) - Max(S - p.upper_strike, 0))
             * barrier(S, p.ko_barrier, FALSE, TRUE)
    ELSE IF p.variant = "DownAndOutPut"
    THEN Max(p.strike - S, 0) * barrier(S, p.ko_barrier, TRUE, TRUE)
             + p.rebate * (1 - barrier(S, p.ko_barrier, TRUE, TRUE))
    ELSE barrier(S, p.ko_barrier_down, TRUE, TRUE)
             * barrier(S, p.ko_barrier_up, FALSE, TRUE)

\* <variant>.getPayoff on an array S.
getPayoff(p, S) == [j \in 1..Len(S) |-> getPayoffAt(p, S[j])]

\* <variant>.getPayoff on a scalar spot: barrier() reads perf.shape, which a
\* builtin float does not have (AttributeError); a numpy scalar is an array
\* of no dimension.
getPayoffScalar(p, spot, isNumpy) ==
    IF UsesBarrier(p) /\ ~isNumpy
    THEN [raised |-> TRUE, err |-> "AttributeError", value |-> 0]
    ELSE [raised |-> FALSE, err |-> "", value |-> getPayoffAt(p, spot)]

\* <variant>.getConstraint(S, t, solution)
getConstraint(p, S, t, solution) ==
    LET n == Len(S) IN
    IF p.variant = "AmericanCall"
    THEN [j \in 1..n |-> Max(Max(S[j] - p.strike, 0), solution[j])]
    ELSE IF p.variant = "UpAndOutCallSpread"
    THEN IF S[n] >= p.ko_barrier THEN [solution EXCEPT ![n] = 0] ELSE solution
    ELSE IF p.variant = "DownAndOutPut"
    THEN IF S[1] <= p.ko_barrier THEN [solution EXCEPT ![1] = p.rebate] ELSE solution
    ELSE LET s1 == IF S[1] <= p.ko_barrier_down
                   THEN [solution EXCEPT ![1] = 0] ELSE solution
         IN IF S[n] >= p.ko_barrier_up THEN [s1 EXCEPT ![n] = 0] ELSE s1

\* <variant>.getContinousBarriers(): (low, high); an infinite bound is not
\* finite and its value is not read.
getContinousBarriers(p) ==
    IF p.variant = "UpAndOutCallSpread"
    THEN [lo_fin |-> FALSE, lo |-> 0, hi_fin |-> TRUE, hi |-> p.ko_barrier]
    ELSE IF p.variant = "DownAndOutPut"
    THEN [lo_fin |-> TRUE, lo |-> p.ko_barrier, hi_fin |-> FALSE, hi |-> 0]
    ELSE IF p.variant = "DoubleNoTouch"
    THEN [lo_fin |-> TRUE, lo |-> p.ko_barrier_down,
          hi_fin |-> TRUE, hi |-> p.ko_barrier_up]
    ELSE [lo_fin |-> FALSE, lo |-> 0, hi_fin |-> FALSE, hi |-> 0]

\* <variant>.getDirichletBoundaries(self, S, t): the number of parameters
\* after self, the same in the base class and in every variant.
DirichletParams == 2

\* <variant>.getDirichletBoundaries(S, t)
getDirichletBoundaries(p, S, t) ==
    IF p.variant = "AmericanCall" THEN <<0, Max(S[Len(S)] - p.strike, 0)>>
    ELSE IF p.variant = "DownAndOutPut" THEN <<p.rebate, 0>>
    ELSE <<0, 0>>

\* ------------------------------------------------- NonLinearPDESolver.py
\* Defaults of NonLinearPDESolver.__init__.
nb_std_down == -6
nb_std_up == 6

\* nb_std * reference_vol * sqrt(expiry), from vol ticks to log ticks (four
\* vol ticks to the log tick).
StdDevs(nb_std, reference_vol, expiry) ==
    (nb_std * reference_vol.elems[1] * Sqrt(expiry)) \div 4

NoEngine ==
    [built |-> FALSE, nb_t_steps |-> 0, nb_x_steps |-> 0, dT |-> 0, t_mesh |-> <<>>,
     x_min0 |-> 0, x_max0 |-> 0, x_mesh |-> <<>>, dX |-> 0, s_mesh |-> <<>>]

\* NonLinearPDESolver.__init__.  dT and dX are kept as the numerators of
\* the steps linspace returns: dT = (0 - expiry) / (nb_t_steps - 1) and
\* dX = (x_max - x_min) / (nb_x_steps - 1), the denominators being positive.
\* x_min0 and x_max0 are x_min and x_max before the barrier treatment.
NewEngine(p, u, nb_t_steps, nb_x_steps) ==
    LET cb == getContinousBarriers(p)
        x_min0 == Log(u.reference_spot) + StdDevs(nb_std_down, u.reference_vol, p.t_expiry)
        x_max0 == Log(u.reference_spot) + StdDevs(nb_std_up, u.reference_vol, p.t_expiry)
        x_min == IF cb.lo_fin /\ Log(cb.lo) >= x_min0 THEN Log(cb.lo) ELSE x_min0
        x_max == IF cb.hi_fin /\ Log(cb.hi) <= x_max0 THEN Log(cb.hi) ELSE x_max0
        x_mesh == Linspace(x_min, x_max, nb_x_steps)
        s0 == [j \in 1..nb_x_steps |-> Exp(x_mesh[j])]
        s1 == IF cb.lo_fin /\ Log(cb.lo) = x_min THEN [s0 EXCEPT ![1] = cb.lo] ELSE s0
        s2 == IF cb.hi_fin /\ Log(cb.hi) = x_max
              THEN [s1 EXCEPT ![nb_x_steps] = cb.hi] ELSE s1
    IN [built |-> TRUE, nb_t_steps |-> nb_t_steps, nb_x_steps |-> nb_x_steps,
        dT |-> 0 - p.t_expiry,
        t_mesh |-> Linspace(p.t_expiry, 0, nb_t_steps),
        x_min0 |-> x_min0, x_max0 |-> x_max0,
        x_mesh |-> x_mesh, dX |-> x_max - x_min, s_mesh |-> s2]

\* The number of arguments solveOneStep passes to getDirichletBoundaries:
\* self.s_mesh, self.t_mesh[i + 1] and solution_after.
DirichletArgs == 3

\* continuous_barriers[0] < spot < continuous_barriers[1]
InsideBarriers(cb, spot) ==
    /\ (cb.lo_fin => cb.lo < spot)
    /\ (cb.hi_fin => spot < cb.hi)

\* The test of solvePDE's first return: expired, or a breached barrier.
FastPath(e, p, u) ==
    e.dT >= 0 \/ ~InsideBarriers(getContinousBarriers(p), u.spot)

\* The notional test without its comparison to 0.0.
NullNotional_NoneOnly(notional) == notional = <<>>

\* notional is None or notional == 0.0
NullNotional(notional) == notional = <<>> \/ notional[1] = 0

NoResult == [kind |-> "none", value |-> 0, err |-> ""]
Value(v) == [kind |-> "value", value |-> v, err |-> ""]
Error(e) == [kind |-> "error", value |-> 0, err |-> e]

\* A solvePDE frame: where it is, its local solution (<<>> while unassigned),
\* the number of solveOneStep calls made, and how it ended.
SolveIdle == [pc |-> "idle", solution |-> <<>>, steps |-> 0, result |-> NoResult]
SolveCalled == [pc |-> "called", solution |-> <<>>, steps |-> 0, result |-> NoResult]

\* ------------------------------------------------------------ Greeks.py
GreeksIdle ==
    [pc |-> "idle", bump |-> 0, spot |-> 0, spot_bump |-> 0, vol |-> Float(0),
     premium |-> 0, premium_minus |-> 0, premium_plus |-> 0,
     entry |-> <<>>, solves |-> <<>>, result |-> <<>>, err |-> ""]

\* What a solvePDE call reads of the Underlying.
Reads(u) == [spot |-> u.spot, vol |-> u.vol, is_non_linear |-> u.is_non_linear]

\* The returned tuple with surprime taken against premium_minus.
GreeksTuple_SurprimeFromMinus(premium, premium_minus, premium_plus, premium_linear, spot_bump) ==
    <<premium,
      (100 * (premium_plus - premium_minus)) \div (2 * spot_bump),
      (100 * (premium_plus - 2 * premium + premium_minus)) \div (spot_bump * spot_bump),
      premium - premium_minus>>

\* The finite differences and the returned tuple (premium, delta, gamma,
\* surprime); a quotient is rounded to a whole tick.
GreeksTuple(premium, premium_minus, premium_plus, premium_linear, spot_bump) ==
    <<premium,
      (100 * (premium_plus - premium_minus)) \div (2 * spot_bump),
      (100 * (premium_plus - 2 * premium + premium_minus)) \div (spot_bump * spot_bump),
      premium - premium_linear>>

\* ------------------------------------------------------------ the caller
\* The payoffs of a session.  Prices are in ticks.
Expiries == {0, 1}
Notionals == {<<>>, <<0>>, <<-1>>}
PayoffsOn(expiries, notionals) ==
    { [variant |-> "AmericanCall", t_expiry |-> t, notional |-> n, strike |-> 10]
        : t \in expiries, n \in notionals }
    \cup
    { [variant |-> "UpAndOutCallSpread", t_expiry |-> t, notional |-> n,
       strike |-> 8, upper_strike |-> 12, ko_barrier |-> 16]
        : t \in expiries, n \in notionals }
    \cup
    { [variant |-> "DownAndOutPut", t_expiry |-> t, notional |-> n,
       strike |-> 14, ko_barrier |-> 9, rebate |-> 1]
        : t \in expiries, n \in notionals }
    \cup
    { [variant |-> "DoubleNoTouch", t_expiry |-> t, notional |-> n,
       ko_barrier_down |-> 9, ko_barrier_up |-> 16]
        : t \in expiries, n \in notionals }

Payoffs == PayoffsOn(Expiries, Notionals)

\* Arguments of Underlying(spot, vol) that construct.
InitSpots == {8, 9, 16, 20}
InitVols == {Float(4), Tuple(<<2, 6>>)}

\* Arguments the caller passes to the setters between the solves of a session.
SessionSpots == {0, 12}
SessionReferenceSpots == {4}
SessionVols == {Float(2), Tuple(<<2, 6>>)}
SessionReferenceVols == {Float(2)}

\* Arguments of the setters, accepted and rejected.
SpotArgs == {-2, 0, 6, 12}
ReferenceSpotArgs == {-2, 0, 4, 12}
VolArgs ==
    {Float(-2), Float(0), Float(2), Tuple(<<2, 6>>), Tuple(<<6, 2>>),
     Tuple(<<0, 4>>), Tuple(<<-4, -2>>), Tuple(<<4>>), Tuple(<<2, 4, 6>>),
     TupleOfInts(<<2, 6>>), OtherType}
ReferenceVolArgs ==
    {Float(0), Float(2), Tuple(<<2, 6>>), Tuple(<<6, 2>>), Tuple(<<4>>), OtherType}

\* Arguments of the engine's constructor and of computeGreeks
\* (bump_for_delta, in halves).
TimeSteps == {2, 3}
SpaceSteps == {3}
Bumps == {1, 2, -2}

\* No pass of the non-linear loop is under way.
NoLoop == [pc |-> "none", solution_prev_iter |-> <<>>, gamma |-> <<>>, optimizedVol |-> <<>>]

NoCall == [op |-> "none", raised |-> FALSE]

Init ==
    /\ \E spot \in InitSpots, isNumpy \in BOOLEAN, vol \in InitVols :
           und = NewUnderlying(spot, isNumpy, vol)
    /\ payoff \in Payoffs
    /\ eng = NoEngine
    /\ solve = SolveIdle
    /\ greeks = GreeksIdle
    /\ last = NoCall
    /\ nl = NoLoop

\* No call is running: the caller may make one.
Idle ==
    /\ solve.pc \in {"idle", "done"}
    /\ greeks.pc \in {"idle", "returned", "raised"}

\* The caller calls und.setSpot(spot).
SetSpot(spot, isNumpy) ==
    /\ Idle
    /\ und' = setSpot(und, spot, isNumpy)
    /\ last' = [op |-> "setSpot", raised |-> ~validateSpot(spot)]
    /\ solve' = SolveIdle
    /\ greeks' = GreeksIdle
    /\ UNCHANGED <<payoff, eng, nl>>

\* The caller calls und.setReferenceSpot(reference_spot).
SetReferenceSpot(reference_spot) ==
    /\ Idle
    /\ und' = setReferenceSpot(und, reference_spot)
    /\ last' = [op |-> "setReferenceSpot", raised |-> ~validateSpot(reference_spot)]
    /\ solve' = SolveIdle
    /\ greeks' = GreeksIdle
    /\ UNCHANGED <<payoff, eng, nl>>

\* The caller calls und.setVol(vol).
SetVol(vol) ==
    /\ Idle
    /\ und' = setVol(und, vol)
    /\ last' = [op |-> "setVol", raised |-> ~validateVol(vol)]
    /\ solve' = SolveIdle
    /\ greeks' = GreeksIdle
    /\ UNCHANGED <<payoff, eng, nl>>

\* The caller calls und.setReferenceVol(reference_vol).
SetReferenceVol(reference_vol) ==
    /\ Idle
    /\ und' = setReferenceVol(und, reference_vol)
    /\ last' = [op |-> "setReferenceVol", raised |-> ~validateVol(reference_vol)]
    /\ solve' = SolveIdle
    /\ greeks' = GreeksIdle
    /\ UNCHANGED <<payoff, eng, nl>>

\* The caller constructs the engine on the payoff and the Underlying.
Construct(nb_t_steps, nb_x_steps) ==
    /\ Idle
    /\ ~eng.built
    /\ eng' = NewEngine(payoff, und, nb_t_steps, nb_x_steps)
    /\ last' = NoCall
    /\ solve' = SolveIdle
    /\ greeks' = GreeksIdle
    /\ UNCHANGED <<und, payoff, nl>>

\* The caller calls pde_solver.solvePDE().
CallSolvePDE ==
    /\ Idle
    /\ eng.built
    /\ solve' = SolveCalled
    /\ greeks' = GreeksIdle
    /\ last' = NoCall
    /\ UNCHANGED <<und, payoff, eng, nl>>

\* solvePDE, from its entry to the first of: the return of the payoff at the
\* spot (expired, or a breached barrier), the missing-notional exception, or
\* the solution at expiry on the mesh, passed through the constraint.
SolvePDE_Enter ==
    /\ solve.pc = "called"
    /\ solve' =
         IF FastPath(eng, payoff, und)
         THEN LET premium == getPayoffScalar(payoff, und.spot, und.spot_np)
              IN [solve EXCEPT !.pc = "done",
                               !.result = IF premium.raised THEN Error(premium.err)
                                          ELSE Value(premium.value)]
         ELSE IF und.is_non_linear /\ NullNotional(payoff.notional)
         THEN [solve EXCEPT !.pc = "done", !.result = Error("MissingNotional")]
         ELSE [solve EXCEPT !.pc = "loop",
                            !.solution = getConstraint(payoff, eng.s_mesh, eng.t_mesh[1],
                                                       getPayoff(payoff, eng.s_mesh))]
    /\ UNCHANGED <<und, payoff, eng, greeks, last, nl>>

\* The first pass of the loop on time steps: solveOneStep (on the midpoint
\* volatility when the Underlying is non-linear, on its volatility
\* otherwise) fills the banded matrix, copies the solution and calls
\* payoff.getDirichletBoundaries with DirichletArgs arguments; the method
\* takes DirichletParams, so the call raises TypeError and solvePDE ends
\* there, in its first step, for every payoff.
SolvePDE_Step ==
    /\ solve.pc = "loop"
    /\ solve.steps < eng.nb_t_steps - 1
    /\ DirichletArgs # DirichletParams
    /\ solve' = [solve EXCEPT !.pc = "done", !.steps = @ + 1,
                              !.result = Error("TypeError")]
    /\ UNCHANGED <<und, payoff, eng, greeks, last, nl>>

\* computeGreeks(pde_solver, bump_for_delta), to its first solvePDE call;
\* bump_for_delta is bump / 2, and spot_bump a whole number of ticks within
\* the model's spots.
ComputeGreeks(bump) ==
    /\ Idle
    /\ eng.built
    /\ (bump * und.spot) % 2 = 0
    /\ und.spot - (bump * und.spot) \div 2 <= MaxSpot
    /\ und.spot + (bump * und.spot) \div 2 <= MaxSpot
    /\ greeks' = [GreeksIdle EXCEPT !.pc = "base", !.bump = bump,
                                    !.spot = und.spot,
                                    !.spot_bump = (bump * und.spot) \div 2,
                                    !.entry = <<und>>,
                                    !.solves = <<Reads(und)>>]
    /\ solve' = SolveCalled
    /\ last' = NoCall
    /\ UNCHANGED <<und, payoff, eng, nl>>

\* An exception leaves computeGreeks (and the solvePDE frame, if it came
\* from there).
GreeksRaise(err) == [greeks EXCEPT !.pc = "raised", !.err = err]

\* premium = solvePDE() has ended; setSpot(spot - spot_bump), solvePDE().
GreeksAfterBase ==
    /\ greeks.pc = "base"
    /\ solve.pc = "done"
    /\ IF solve.result.kind = "error"
       THEN /\ greeks' = GreeksRaise(solve.result.err)
            /\ solve' = SolveIdle
            /\ UNCHANGED und
       ELSE IF ~validateSpot(greeks.spot - greeks.spot_bump)
       THEN /\ greeks' = [GreeksRaise("validateSpot") EXCEPT !.premium = solve.result.value]
            /\ solve' = SolveIdle
            /\ UNCHANGED und
       ELSE /\ und' = setSpot(und, greeks.spot - greeks.spot_bump, und.spot_np)
            /\ greeks' = [greeks EXCEPT !.pc = "minus",
                                        !.premium = solve.result.value,
                                        !.solves = Append(@, Reads(und'))]
            /\ solve' = SolveCalled
    /\ UNCHANGED <<payoff, eng, last, nl>>

\* premium_minus = solvePDE() has ended; setSpot(spot + spot_bump), solvePDE().
GreeksAfterMinus ==
    /\ greeks.pc = "minus"
    /\ solve.pc = "done"
    /\ IF solve.result.kind = "error"
       THEN /\ greeks' = GreeksRaise(solve.result.err)
            /\ solve' = SolveIdle
            /\ UNCHANGED und
       ELSE IF ~validateSpot(greeks.spot + greeks.spot_bump)
       THEN /\ greeks' = [GreeksRaise("validateSpot") EXCEPT
                              !.premium_minus = solve.result.value]
            /\ solve' = SolveIdle
            /\ UNCHANGED und
       ELSE /\ und' = setSpot(und, greeks.spot + greeks.spot_bump, und.spot_np)
            /\ greeks' = [greeks EXCEPT !.pc = "plus",
                                        !.premium_minus = solve.result.value,
                                        !.solves = Append(@, Reads(und'))]
            /\ solve' = SolveCalled
    /\ UNCHANGED <<payoff, eng, last, nl>>

\* premium_plus = solvePDE() has ended; setSpot(spot); on a non-linear
\* Underlying setVol(midpoint) and solvePDE(), on a linear one
\* premium_linear = premium and the return.
GreeksAfterPlus ==
    /\ greeks.pc = "plus"
    /\ solve.pc = "done"
    /\ IF solve.result.kind = "error"
       THEN /\ greeks' = GreeksRaise(solve.result.err)
            /\ solve' = SolveIdle
            /\ UNCHANGED und
       ELSE LET u1 == setSpot(und, greeks.spot, und.spot_np)
                premium_plus == solve.result.value
            IN IF u1.is_non_linear
               THEN /\ und' = setVol(u1, MidVol(u1.vol))
                    /\ greeks' = [greeks EXCEPT !.pc = "linear",
                                                !.premium_plus = premium_plus,
                                                !.vol = u1.vol,
                                                !.solves = Append(@, Reads(und'))]
                    /\ solve' = SolveCalled
               ELSE /\ und' = u1
                    /\ greeks' = [greeks EXCEPT
                           !.pc = "returned",
                           !.premium_plus = premium_plus,
                           !.result = GreeksTuple(greeks.premium, greeks.premium_minus,
                                                  premium_plus, greeks.premium,
                                                  greeks.spot_bump)]
                    /\ solve' = SolveIdle
    /\ UNCHANGED <<payoff, eng, last, nl>>

\* premium_linear = solvePDE() has ended; setVol(vol) and the return.
GreeksAfterLinear ==
    /\ greeks.pc = "linear"
    /\ solve.pc = "done"
    /\ IF solve.result.kind = "error"
       THEN /\ greeks' = GreeksRaise(solve.result.err)
            /\ solve' = SolveIdle
            /\ UNCHANGED und
       ELSE /\ und' = setVol(und, greeks.vol)
            /\ greeks' = [greeks EXCEPT
                   !.pc = "returned",
                   !.result = GreeksTuple(greeks.premium, greeks.premium_minus,
                                          greeks.premium_plus, solve.result.value,
                                          greeks.spot_bump)]
            /\ solve' = SolveIdle
    /\ UNCHANGED <<payoff, eng, last, nl>>

\* The setter calls of a pricing session, between its solves.
SessionSetters ==
    \/ \E spot \in SessionSpots, isNumpy \in BOOLEAN : SetSpot(spot, isNumpy)
    \/ \E reference_spot \in SessionReferenceSpots : SetReferenceSpot(reference_spot)
    \/ \E vol \in SessionVols : SetVol(vol)
    \/ \E reference_vol \in SessionReferenceVols : SetReferenceVol(reference_vol)

Next ==
    \/ SessionSetters
    \/ \E nb_t_steps \in TimeSteps, nb_x_steps \in SpaceSteps :
           Construct(nb_t_steps, nb_x_steps)
    \/ CallSolvePDE
    \/ SolvePDE_Enter
    \/ SolvePDE_Step
    \/ \E bump \in Bumps : ComputeGreeks(bump)
    \/ GreeksAfterBase
    \/ GreeksAfterMinus
    \/ GreeksAfterPlus
    \/ GreeksAfterLinear

Spec == Init /\ [][Next]_vars

\* The Underlying alone, under every setter call, accepted or rejected.
NextUnderlying ==
    \/ \E spot \in SpotArgs, isNumpy \in BOOLEAN : SetSpot(spot, isNumpy)
    \/ \E reference_spot \in ReferenceSpotArgs : SetReferenceSpot(reference_spot)
    \/ \E vol \in VolArgs : SetVol(vol)
    \/ \E reference_vol \in ReferenceVolArgs : SetReferenceVol(reference_vol)

\* The Underlying of a session whose payoff is not yet of interest.
InitUnderlying ==
    /\ Init
    /\ payoff.variant = "AmericanCall"
    /\ payoff.t_expiry = 1
    /\ payoff.notional = <<>>

SpecUnderlying == InitUnderlying /\ [][NextUnderlying]_vars

\* ------------------------------------- solvePDE: the non-linear loop
\* gamma of one pass of the non-linear loop, from the previous iterate:
\* zero at the two edge nodes and, at an interior node,
\* ((1 + 0.5 dX) prev[j-1] - 2 prev[j] + (1 - 0.5 dX) prev[j+1]) / dX^2.
\* The value kept is gamma times the positive number 12 (nb_x_steps - 1) dX^2,
\* a log tick being a sixth of a unit of log-spot: a whole number with
\* gamma's sign.
Gamma(e, solution_prev_iter) ==
    LET n == e.nb_x_steps
        d == 12 * (n - 1)
    IN [j \in 1..n |->
          IF j = 1 \/ j = n THEN 0
          ELSE (d + e.dX) * solution_prev_iter[j - 1]
                 - 2 * d * solution_prev_iter[j]
                 + (d - e.dX) * solution_prev_iter[j + 1]]

\* The optimized volatility with the sign of the Hamiltonian inverted.
OptimizedVol_Inverted(vol, gamma, notional) ==
    LET n == Len(gamma)
        v0 == [j \in 1..n |->
                 vol.elems[1]
                   + ((vol.elems[2] - vol.elems[1]) * (1 + Sign(gamma[j] * notional)))
                       \div 2]
        v1 == [v0 EXCEPT ![1] = v0[2]]
    IN [v1 EXCEPT ![n] = v1[n - 1]]

\* optimizedVol = vol[0] + (vol[1] - vol[0]) * 0.5 * (1.0 + sign(-gamma * notional)),
\* then optimizedVol[0] = optimizedVol[1] and optimizedVol[-1] = optimizedVol[-2].
OptimizedVol(vol, gamma, notional) ==
    LET n == Len(gamma)
        v0 == [j \in 1..n |->
                 vol.elems[1]
                   + ((vol.elems[2] - vol.elems[1]) * (1 + Sign((0 - gamma[j]) * notional)))
                       \div 2]
        v1 == [v0 EXCEPT ![1] = v0[2]]
    IN [v1 EXCEPT ![n] = v1[n - 1]]

\* One pass of the non-linear loop up to its re-solve: gamma and the
\* optimized volatility, from the previous iterate.
NonLinearSelectVol ==
    /\ solve.pc = "loop"
    /\ und.is_non_linear
    /\ nl.pc = "gamma"
    /\ nl' = [nl EXCEPT
                !.pc = "vol",
                !.gamma = Gamma(eng, nl.solution_prev_iter),
                !.optimizedVol = OptimizedVol(und.vol, Gamma(eng, nl.solution_prev_iter),
                                              payoff.notional[1])]
    /\ UNCHANGED <<und, payoff, eng, solve, greeks, last>>

\* The volatility selection as a function of its inputs: a bid/ask pair, a
\* notional that is not null, a mesh and a previous iterate on its nodes.
LoopVols == {Tuple(<<2, 6>>), Tuple(<<4, 4>>)}
LoopNotionals == {<<-1>>, <<2>>}
LoopSpaceSteps == {5}
IterateValues == {0, 1, 3}

InitSelectVol ==
    /\ \E vol \in LoopVols : und = NewUnderlying(8, TRUE, vol)
    /\ payoff \in PayoffsOn({1}, LoopNotionals)
    /\ \E nb_x_steps \in LoopSpaceSteps : eng = NewEngine(payoff, und, 2, nb_x_steps)
    /\ solve = [SolveCalled EXCEPT
                   !.pc = "loop",
                   !.solution = getConstraint(payoff, eng.s_mesh, eng.t_mesh[1],
                                              getPayoff(payoff, eng.s_mesh))]
    /\ greeks = GreeksIdle
    /\ last = NoCall
    /\ \E prev \in [1..eng.nb_x_steps -> IterateValues] :
          nl = [pc |-> "gamma", solution_prev_iter |-> prev,
                gamma |-> <<>>, optimizedVol |-> <<>>]

SpecSelectVol == InitSelectVol /\ [][NonLinearSelectVol]_vars

\* ------------------------------------------------------------ properties
\* The claims' own reading of the payoff, independent of the engine's tests.
Expired == payoff.t_expiry <= 0

\* The spot is strictly inside the open continuous-barrier interval.
StrictlyInside ==
    IF payoff.variant = "UpAndOutCallSpread" THEN und.spot < payoff.ko_barrier
    ELSE IF payoff.variant = "DownAndOutPut" THEN payoff.ko_barrier < und.spot
    ELSE IF payoff.variant = "DoubleNoTouch"
    THEN payoff.ko_barrier_down < und.spot /\ und.spot < payoff.ko_barrier_up
    ELSE TRUE

\* No grid work was done by the solvePDE call: no payoff on the mesh, no step.
NoGridWork == solve.solution = <<>> /\ solve.steps = 0

NonLinearWithoutNotional ==
    und.vol.tag = "tuple" /\ (payoff.notional = <<>> \/ payoff.notional = <<0>>)

\* C1, as stated: whenever the Underlying is non-linear and the notional is
\* None or 0, every solvePDE call ends in the missing-notional error, for every
\* spot and expiry, before any grid work.
C1_AlwaysMissingNotional ==
    (solve.pc = "done" /\ NonLinearWithoutNotional)
        => (solve.result = Error("MissingNotional") /\ NoGridWork)

\* C1, amended: a non-linear Underlying with a None or 0 notional makes
\* solvePDE end in the missing-notional error, before any grid work, exactly
\* when the call is not on the fast path (expiry > 0 and the spot strictly
\* inside the barriers); on the fast path the call never raises that error.
C1_MissingNotionalOffFastPath ==
    (solve.pc = "done" /\ NonLinearWithoutNotional)
        => /\ NoGridWork
           /\ (solve.result = Error("MissingNotional")) <=> (~Expired /\ StrictlyInside)

C1_Witness ==
    /\ solve.pc = "done"
    /\ solve.result = Error("MissingNotional")
    /\ payoff.notional = <<0>>
    /\ payoff.variant = "DoubleNoTouch"

\* C2, as stated: when an exception leaves computeGreeks, the Underlying's
\* spot, vol and isNonLinear flag are those of the call.
C2_RestoredOnRaise ==
    greeks.pc = "raised"
        => /\ und.spot = greeks.entry[1].spot
           /\ und.vol = greeks.entry[1].vol
           /\ und.is_non_linear = greeks.entry[1].is_non_linear

\* The solves computeGreeks is to run on the Underlying u, in order.
ExpectedSolves(u, spot_bump) ==
    <<[spot |-> u.spot, vol |-> u.vol, is_non_linear |-> u.is_non_linear],
      [spot |-> u.spot - spot_bump, vol |-> u.vol, is_non_linear |-> u.is_non_linear],
      [spot |-> u.spot + spot_bump, vol |-> u.vol, is_non_linear |-> u.is_non_linear]>>
    \o (IF u.vol.tag = "tuple"
        THEN <<[spot |-> u.spot,
                vol |-> Float((u.vol.elems[1] + u.vol.elems[2]) \div 2),
                is_non_linear |-> FALSE]>>
        ELSE <<>>)

C3_Returned ==
    greeks.pc = "returned"
        => /\ und = greeks.entry[1]
           /\ greeks.solves = ExpectedSolves(greeks.entry[1], greeks.spot_bump)

\* C3: on a normal return of computeGreeks the Underlying (spot, vol, flag,
\* reference spot, reference vol) is as at the call, the solves were run in
\* order at (spot, vol), (spot - bump, vol), (spot + bump, vol) and, on a
\* non-linear Underlying only, at (spot, midpoint) with the flag false; and no
\* step of solvePDE writes to the Underlying.
C3_GreeksRestoresOnReturn ==
    /\ []C3_Returned
    /\ [][(SolvePDE_Enter \/ SolvePDE_Step) => und' = und]_vars

C3_Witness ==
    /\ greeks.pc = "returned"
    /\ Len(greeks.solves) = 4
    /\ greeks.entry[1].spot # greeks.entry[1].reference_spot

\* C4, as stated: solvePDE takes the fast path exactly when expired or the
\* spot is not strictly inside the barriers, and then returns
\* getPayoff(spot), for every payoff, with no grid work and no error.
C4_FastPathReturnsPayoff ==
    solve.pc = "done"
        => /\ (Expired \/ ~StrictlyInside)
                => /\ solve.result = Value(getPayoffAt(payoff, und.spot))
                   /\ NoGridWork
           /\ ~(Expired \/ ~StrictlyInside) => solve.result.kind = "error"

\* C5: on a linear Underlying computeGreeks returns surprime = 0, runs three
\* solves and never writes the vol.
C5_LinearSurprimeZero ==
    (greeks.pc # "idle" /\ greeks.entry[1].vol.tag = "float")
        => /\ und.vol = greeks.entry[1].vol
           /\ ~und.is_non_linear
           /\ greeks.pc # "linear"
           /\ Len(greeks.solves) <= 3
           /\ greeks.pc = "returned"
                => /\ greeks.result[4] = 0
                   /\ greeks.result[1] = greeks.premium
                   /\ Len(greeks.solves) = 3

C5_Witness ==
    /\ greeks.pc = "returned"
    /\ greeks.entry[1].vol.tag = "float"
    /\ greeks.premium > 0
    /\ greeks.premium # greeks.premium_minus

\* C6, as stated: a solvePDE call returns a premium or raises before
\* computation starts; once the time loop has begun no step raises.
C6_NoPartialFailure ==
    (solve.pc = "done" /\ solve.result.kind = "error") => NoGridWork

\* C9, as stated: the non-linear loop of a time step ends with the step's
\* solution, the last iterate, after the midpoint solve and at most
\* nb_non_linear_iter re-solves.
C9_NonLinearStepEnds ==
    (und.is_non_linear /\ solve.steps > 0) => solve.result.kind # "error"

\* C10, as stated: after construction with expiry > 0 the x-mesh is
\* ascending and inside the unnarrowed range, an end is moved to
\* log(barrier) only for a finite barrier inside that range, and exactly
\* then the spot mesh's end node is the barrier itself.
C10_MeshInsideRange ==
    (eng.built /\ payoff.t_expiry > 0)
        => LET n == eng.nb_x_steps
               cb == getContinousBarriers(payoff)
               lowIn == cb.lo_fin /\ eng.x_min0 <= Log(cb.lo) /\ Log(cb.lo) <= eng.x_max0
               highIn == cb.hi_fin /\ eng.x_min0 <= Log(cb.hi) /\ Log(cb.hi) <= eng.x_max0
           IN /\ eng.x_mesh[1] < eng.x_mesh[n]
              /\ eng.dX > 0
              /\ eng.x_min0 <= eng.x_mesh[1]
              /\ eng.x_mesh[n] <= eng.x_max0
              /\ (eng.x_mesh[1] # eng.x_min0) => lowIn
              /\ (eng.x_mesh[n] # eng.x_max0) => highIn
              /\ lowIn => eng.s_mesh[1] = cb.lo
              /\ highIn => eng.s_mesh[n] = cb.hi

\* The claim's own reading of a valid volatility and of a rejected argument.
ValidVol(vol) ==
    \/ vol.tag = "float" /\ vol.elems[1] > 0
    \/ /\ vol.tag = "tuple"
       /\ Len(vol.elems) = 2
       /\ 0 < vol.elems[1]
       /\ vol.elems[1] <= vol.elems[2]

RejectedVol(vol) ==
    \/ vol.tag = "float" /\ vol.elems[1] <= 0
    \/ vol.tag = "tuple" /\ Len(vol.elems) # 2
    \/ vol.tag = "tuple" /\ Len(vol.elems) = 2
           /\ (vol.elems[1] <= 0 \/ vol.elems[1] > vol.elems[2])

C7_Fields ==
    /\ und.spot > 0
    /\ und.reference_spot > 0
    /\ ValidVol(und.vol)
    /\ und.reference_vol.tag = "float"
    /\ und.reference_vol.elems[1] > 0
    /\ und.is_non_linear <=> (und.vol.tag = "tuple")

C7_Setters ==
    /\ \A spot \in SpotArgs, isNumpy \in BOOLEAN :
          SetSpot(spot, isNumpy) =>
              IF spot <= 0 THEN last'.raised /\ und' = und
              ELSE ~last'.raised /\ und'.spot = spot
    /\ \A reference_spot \in ReferenceSpotArgs :
          SetReferenceSpot(reference_spot) =>
              IF reference_spot <= 0 THEN last'.raised /\ und' = und
              ELSE ~last'.raised /\ und'.reference_spot = reference_spot
    /\ \A vol \in VolArgs :
          SetVol(vol) =>
              /\ RejectedVol(vol) => last'.raised
              /\ last'.raised => und' = und
              /\ ~last'.raised => und'.vol = vol
    /\ \A reference_vol \in ReferenceVolArgs :
          SetReferenceVol(reference_vol) =>
              /\ RejectedVol(reference_vol) => last'.raised
              /\ last'.raised => und' = und
              /\ ~last'.raised =>
                    und'.reference_vol =
                        IF reference_vol.tag = "tuple"
                        THEN Float((reference_vol.elems[1] + reference_vol.elems[2]) \div 2)
                        ELSE reference_vol

\* C7: in every state of a constructed Underlying, after any sequence of
\* setter calls, spot > 0, referenceSpot > 0, vol is a positive scalar or a
\* pair with 0 < bid <= ask, referenceVol is a positive scalar (the midpoint
\* of a pair), isNonLinear() holds iff vol is a pair; and a rejected setter
\* call raises and leaves every field unchanged.
C7_UnderlyingInvariant == []C7_Fields /\ [][C7_Setters]_vars

C7_Witness ==
    /\ last.op = "setVol"
    /\ last.raised
    /\ und.is_non_linear
    /\ und.reference_vol = Float(2)
    /\ und.reference_spot # und.spot

\* The volatility of node j the claim names, given where ask is chosen.
C8_Node(j) == IF j = 1 THEN 2 ELSE IF j = Len(nl.gamma) THEN Len(nl.gamma) - 1 ELSE j

====
